---- MODULE Spec2Model ----
(***************************************************************************)
(* Model of the gate graph of the circuit library (circuit/circuit.py):    *)
(* gate construction (gate.__init__, gate.output, gates.gate,              *)
(* circuit.gate), reachability marking (gates.mark), pruning               *)
(* (circuit.prune_and_topological_sort_stable), depth analysis            *)
(* (circuit.depth) and evaluation (circuit.evaluate with the default flat  *)
(* signature).                                                             *)
(*                                                                         *)
(* Gate objects live in a heap, a sequence of records; the identity of a   *)
(* gate object is its position in the heap (creation order).  The list     *)
(* circuit.gates is a sequence of such identities.  Python's 0-based       *)
(* positions are kept in the index field and in every lookup.              *)
(***************************************************************************)
EXTENDS Integers, Sequences, FiniteSets, TLC

VARIABLES heap, gates, is_gates, signature, last, prev

vars == <<heap, gates, is_gates, signature, last, prev>>

(* Bounds of the model. *)
MaxGates == 3
MaxBits == 2
MaxLen == 5

(* The largest number of gates of a collection built with gates.gate. *)
MaxCollection == 2

(* The None object: as a placeholder in an inputs list and as the content *)
(* of a wire that has not been assigned. *)
None == -1

(***************************************************************************)
(* Operations (the logical library): name, arity and truth function.       *)
(***************************************************************************)
Ops == {"id", "not", "and", "nf"}

nullary == {"nf", "nt"}

arity(operation) ==
    CASE operation \in {"nf", "nt"} -> 0
      [] operation \in {"id", "not"} -> 1
      [] OTHER -> 2

(* The truth function of an operation on a sequence of bits. *)
function(operation, args) ==
    CASE operation = "nf" -> 0
      [] operation = "nt" -> 1
      [] operation = "id" -> args[1]
      [] operation = "not" -> 1 - args[1]
      [] operation = "and" -> args[1] * args[2]
      [] OTHER -> 0

(***************************************************************************)
(* Helpers on sequences.                                                   *)
(***************************************************************************)
Range(s) == {s[i] : i \in DOMAIN s}

(* Positions (0-based, ascending) of the entries of gs that are in the set *)
(* S: the indices that enumerate(self.gates) yields for them. *)
Positions(gs, S) ==
    SelectSeq([i \in 1..Len(gs) |-> i - 1], LAMBDA p : gs[p + 1] \in S)

(* len([() for g in self.gates if predicate(g)]), the predicate given as *)
(* the set of the gates that satisfy it. *)
count(gs, S) == Len(SelectSeq(gs, LAMBDA g : g \in S))

(* All bit vectors of length at most n. *)
BitVectors(n) == UNION {[1..k -> {0, 1}] : k \in 0..n}

(***************************************************************************)
(* gate.output: designate other as an output gate of g (idempotent).       *)
(***************************************************************************)
(* Variant: other is appended also when it is already listed. *)
output_always_appends(h, g, other) == [h EXCEPT ![g].outputs = Append(@, other)]

output(h, g, other) ==
    IF other \in Range(h[g].outputs) THEN h
    ELSE [h EXCEPT ![g].outputs = Append(@, other)]

(* for ig in self.inputs: if ig is not None: ig.output(self) *)
RECURSIVE register_outputs(_, _, _, _)
register_outputs(h, ins, i, self) ==
    IF i > Len(ins) THEN h
    ELSE register_outputs(
             IF ins[i] # None THEN output(h, ins[i], self) ELSE h,
             ins, i + 1, self)

(***************************************************************************)
(* gate.__init__: the checks, then the construction of the object and the  *)
(* registration of the new gate with each of its input gates.  The inputs  *)
(* argument is a record: given = FALSE stands for inputs=None, list is the *)
(* supplied list (entries are gate identities or None), and of tells which *)
(* list object it is: the inputs list of the gate of, or, with of = None,  *)
(* a list that no gate holds.  The outputs argument is a record of given   *)
(* and list.                                                               *)
(***************************************************************************)
(* The assignments of gate.__init__ once the checks have passed: the new   *)
(* object, appended to the heap, registered with each of its input gates.  *)
(* The object keeps the list objects it is given, without copying them:    *)
(* inputs_id is the identity of its inputs list, the identity of the first *)
(* gate that was built with that list.  gate.output replaces an outputs    *)
(* list by a new list, so an outputs list is held by value. *)
gate_new(h, operation, inputs, outputs, is_input, is_output) ==
    LET self == Len(h) + 1
        obj == [operation |-> operation,
                inputs |-> IF inputs.given THEN inputs.list ELSE <<>>,
                inputs_id |-> IF inputs.given /\ inputs.of # None
                              THEN h[inputs.of].inputs_id ELSE self,
                outputs |-> IF outputs.given THEN outputs.list ELSE <<>>,
                index |-> None,
                is_input |-> is_input,
                is_output |-> is_output,
                is_marked |-> FALSE]
    IN [err |-> "none",
        heap |-> register_outputs(Append(h, obj), obj.inputs, 1, self)]

(* Variant: the new gate is registered with its input gates before the *)
(* number of inputs is checked. *)
gate_init_registers_first(h, operation, inputs, outputs, is_input, is_output) ==
    IF is_input /\ operation # "id" THEN [err |-> "input_role", heap |-> h]
    ELSE IF is_output /\ operation # "id" THEN [err |-> "output_role", heap |-> h]
    ELSE IF inputs.given
            /\ \E i \in DOMAIN inputs.list :
                  inputs.list[i] # None /\ h[inputs.list[i]].is_output
         THEN [err |-> "output_reuse", heap |-> h]
    ELSE IF inputs.given /\ Len(inputs.list) \notin {0, arity(operation)}
         THEN [err |-> "gate_arity",
               heap |-> register_outputs(h, inputs.list, 1, Len(h) + 1)]
    ELSE gate_new(h, operation, inputs, outputs, is_input, is_output)

(* Variant: the role of an output gate is not checked. *)
gate_init_output_role_unchecked(h, operation, inputs, outputs, is_input, is_output) ==
    IF is_input /\ operation # "id" THEN [err |-> "input_role", heap |-> h]
    ELSE IF inputs.given
            /\ \E i \in DOMAIN inputs.list :
                  inputs.list[i] # None /\ h[inputs.list[i]].is_output
         THEN [err |-> "output_reuse", heap |-> h]
    ELSE IF inputs.given /\ Len(inputs.list) \notin {0, arity(operation)}
         THEN [err |-> "gate_arity", heap |-> h]
    ELSE gate_new(h, operation, inputs, outputs, is_input, is_output)

(* Variant: output gates among the inputs are not rejected. *)
gate_init_reuse_unchecked(h, operation, inputs, outputs, is_input, is_output) ==
    IF is_input /\ operation # "id" THEN [err |-> "input_role", heap |-> h]
    ELSE IF is_output /\ operation # "id" THEN [err |-> "output_role", heap |-> h]
    ELSE IF inputs.given /\ Len(inputs.list) \notin {0, arity(operation)}
         THEN [err |-> "gate_arity", heap |-> h]
    ELSE gate_new(h, operation, inputs, outputs, is_input, is_output)

gate_init(h, operation, inputs, outputs, is_input, is_output) ==
    IF is_input /\ operation # "id" THEN [err |-> "input_role", heap |-> h]
    ELSE IF is_output /\ operation # "id" THEN [err |-> "output_role", heap |-> h]
    ELSE IF inputs.given
            /\ \E i \in DOMAIN inputs.list :
                  inputs.list[i] # None /\ h[inputs.list[i]].is_output
         THEN [err |-> "output_reuse", heap |-> h]
    ELSE IF inputs.given /\ Len(inputs.list) \notin {0, arity(operation)}
         THEN [err |-> "gate_arity", heap |-> h]
    ELSE gate_new(h, operation, inputs, outputs, is_input, is_output)

(* del g.inputs[1] by a caller: the entry leaves the list object, which is *)
(* the inputs list of every gate that was built with it. *)
del_inputs_entry(h, g) ==
    [x \in DOMAIN h |->
        IF h[x].inputs_id = h[g].inputs_id
        THEN [h[x] EXCEPT !.inputs = <<@[1]>> \o SubSeq(@, 3, Len(@))]
        ELSE h[x]]

(***************************************************************************)
(* gates.gate: construct the gate, set its index to len(self), append.     *)
(***************************************************************************)
gates_gate(h, gs, operation, inputs, outputs, is_input, is_output) ==
    LET r == gate_init(h, operation, inputs, outputs, is_input, is_output)
    IN IF r.err # "none" THEN [err |-> r.err, heap |-> r.heap, gates |-> gs]
       ELSE [err |-> "none",
             heap |-> [r.heap EXCEPT ![Len(r.heap)].index = Len(gs)],
             gates |-> Append(gs, Len(r.heap))]

(***************************************************************************)
(* circuit.gate: the circuit-level checks, then self.gates.gate(...).      *)
(* isg tells whether self.gates is an instance of the class gates (it is   *)
(* a plain list after a prune, and a plain list has no gate method).       *)
(***************************************************************************)
(* Variant: the number of supplied inputs is not compared with the arity. *)
circuit_gate_count_unchecked(h, gs, isg, operation, inputs, outputs, is_input, is_output) ==
    IF inputs.given /\ None \in Range(inputs.list)
    THEN [err |-> "none_placeholder", heap |-> h, gates |-> gs]
    ELSE IF ~is_input /\ ~inputs.given /\ arity(operation) > 0
    THEN [err |-> "inputs_unspecified", heap |-> h, gates |-> gs]
    ELSE IF ~isg
    THEN [err |-> "AttributeError", heap |-> h, gates |-> gs]
    ELSE gates_gate(h, gs, operation, inputs, outputs, is_input, is_output)

circuit_gate(h, gs, isg, operation, inputs, outputs, is_input, is_output) ==
    IF inputs.given /\ None \in Range(inputs.list)
    THEN [err |-> "none_placeholder", heap |-> h, gates |-> gs]
    ELSE IF ~is_input /\ ~inputs.given /\ arity(operation) > 0
    THEN [err |-> "inputs_unspecified", heap |-> h, gates |-> gs]
    ELSE IF ~is_input /\ inputs.given /\ Len(inputs.list) # arity(operation)
    THEN [err |-> "circuit_arity", heap |-> h, gates |-> gs]
    ELSE IF ~isg
    THEN [err |-> "AttributeError", heap |-> h, gates |-> gs]
    ELSE gates_gate(h, gs, operation, inputs, outputs, is_input, is_output)

(***************************************************************************)
(* gates.mark: mark g and, recursively, every gate reachable through       *)
(* inputs references; a gate that is already marked stops the traversal.   *)
(***************************************************************************)
(* Variant: only g itself is marked. *)
mark_only_self(h, g) == [h EXCEPT ![g].is_marked = TRUE]

RECURSIVE mark(_, _)
RECURSIVE mark_inputs(_, _, _)
mark(h, g) ==
    IF h[g].is_marked THEN h
    ELSE mark_inputs([h EXCEPT ![g].is_marked = TRUE], h[g].inputs, 1)

mark_inputs(h, ins, i) ==
    IF i > Len(ins) THEN h ELSE mark_inputs(mark(h, ins[i]), ins, i + 1)

(* for g in gate_output: gates.mark(g) *)
RECURSIVE mark_each(_, _, _)
mark_each(h, gs, i) ==
    IF i > Len(gs) THEN h ELSE mark_each(mark(h, gs[i]), gs, i + 1)

(***************************************************************************)
(* circuit.prune_and_topological_sort_stable.                              *)
(***************************************************************************)
(* The effective output gates: identity gates flagged is_output that have *)
(* no outputs. *)
is_gate_output(h, g) ==
    Len(h[g].outputs) = 0 /\ h[g].operation = "id" /\ h[g].is_output

(* The input gates collected at the beginning. *)
is_gate_input(h, g) == Len(h[g].inputs) = 0 /\ h[g].is_input

(* The non-input/non-output gates collected in the interior. *)
is_gate_interior(h, g) ==
    /\ (Len(h[g].inputs) > 0 \/ h[g].operation \in nullary)
    /\ Len(h[g].outputs) > 0
    /\ ~h[g].is_input /\ ~h[g].is_output
    /\ h[g].is_marked

(* for g in self.gates: g.is_marked = False *)
RECURSIVE reset_marks(_, _, _)
reset_marks(h, gs, i) ==
    IF i > Len(gs) THEN h
    ELSE reset_marks([h EXCEPT ![gs[i]].is_marked = FALSE], gs, i + 1)

(* for g in gate_output: g.outputs = [] *)
RECURSIVE clear_outputs(_, _, _)
clear_outputs(h, gs, i) ==
    IF i > Len(gs) THEN h
    ELSE clear_outputs([h EXCEPT ![gs[i]].outputs = <<>>], gs, i + 1)

(* The dictionary index_old_to_new after the three collection loops.  keys *)
(* lists the keys in the order of assignment (enumerate positions for the  *)
(* first two loops, g.index for the third); the j-th assignment stores     *)
(* len(gates_) at that moment, j - 1; a later assignment to the same key   *)
(* replaces an earlier one. *)
index_old_to_new(keys) ==
    [k \in Range(keys) |->
        (CHOOSE j \in DOMAIN keys :
            keys[j] = k /\ \A l \in DOMAIN keys : keys[l] = k => l <= j) - 1]

(* for g in gates_: g.index = index_old_to_new[g.index], raising KeyError *)
(* at the first gate whose index is not a key; the assignments made before *)
(* it stay. *)
RECURSIVE update_index(_, _, _, _)
update_index(h, gs, i, map) ==
    IF i > Len(gs) THEN [err |-> "none", heap |-> h]
    ELSE IF h[gs[i]].index \notin DOMAIN map THEN [err |-> "KeyError", heap |-> h]
    ELSE update_index([h EXCEPT ![gs[i]].index = map[h[gs[i]].index]],
                      gs, i + 1, map)

prune_and_topological_sort_stable(h, gs) ==
    LET gate_output == SelectSeq(gs, LAMBDA g : is_gate_output(h, g))
        h1 == mark_each(reset_marks(h, gs, 1), gate_output, 1)
        first == SelectSeq(gs, LAMBDA g : is_gate_input(h1, g))
        interior == SelectSeq(gs, LAMBDA g : is_gate_interior(h1, g))
        gates_ == first \o interior \o gate_output
        keys == Positions(gs, {g \in DOMAIN h1 : is_gate_input(h1, g)})
                \o Positions(gs, {g \in DOMAIN h1 : is_gate_interior(h1, g)})
                \o [j \in 1..Len(gate_output) |-> h1[gate_output[j]].index]
        h2 == clear_outputs(h1, gate_output, 1)
        r == update_index(h2, gates_, 1, index_old_to_new(keys))
    IN IF r.err # "none" THEN [err |-> r.err, heap |-> r.heap, gates |-> gs]
       ELSE [err |-> "none", heap |-> r.heap, gates |-> gates_]

(***************************************************************************)
(* Python values passed to signature and evaluate: an int, an object that  *)
(* is neither an int nor a sequence (a str), None, or a list or tuple of   *)
(* values.  Every value is a record of the same shape; n is the number of  *)
(* an int and v the entries of a list or tuple.  Lists that the code       *)
(* builds itself (the flat bits, the grouped output) are plain sequences.  *)
(***************************************************************************)
PyInt(n) == [t |-> "int", n |-> n, v |-> <<>>]

PyStr == [t |-> "str", n |-> 0, v |-> <<>>]

PyNone == [t |-> "none", n |-> 0, v |-> <<>>]

PyList(v) == [t |-> "list", n |-> 0, v |-> v]

PyTuple(v) == [t |-> "tuple", n |-> 0, v |-> v]

(* isinstance(x, (tuple, list)) *)
is_sequence(x) == x.t \in {"list", "tuple"}

(* isinstance(x, (tuple, list)) and all(isinstance(i, int) for i in x) *)
is_int_sequence(x) == is_sequence(x) /\ \A i \in DOMAIN x.v : x.v[i].t = "int"

(* The list of the numbers of a sequence of ints. *)
numbers(x) == [i \in DOMAIN x.v |-> x.v[i].n]

(* The Python list of a sequence of bits, and of a sequence of groups. *)
bit_list(bits) == PyList([i \in DOMAIN bits |-> PyInt(bits[i])])

group_list(groups) == PyList([i \in DOMAIN groups |-> bit_list(groups[i])])

RECURSIVE Sum(_)
Sum(ns) == IF ns = <<>> THEN 0 ELSE Head(ns) + Sum(Tail(ns))

(* [b for bs in input for b in bs] *)
RECURSIVE flatten(_)
flatten(groups) == IF groups = <<>> THEN <<>> ELSE Head(groups) \o flatten(Tail(groups))

(* parts.parts(xs, length=lengths): consecutive parts of xs of the given   *)
(* lengths, which must add up to the length of xs. *)
RECURSIVE parts_of(_, _)
parts_of(xs, lengths) ==
    IF lengths = <<>> THEN <<>>
    ELSE <<SubSeq(xs, 1, Head(lengths))>>
         \o parts_of(SubSeq(xs, Head(lengths) + 1, Len(xs)), Tail(lengths))

parts(xs, lengths) ==
    IF Sum(lengths) # Len(xs) THEN [err |-> "ValueError", out |-> <<>>]
    ELSE [err |-> "none", out |-> parts_of(xs, lengths)]

(***************************************************************************)
(* signature: the input and output formats of a circuit.  A format is None *)
(* (given is FALSE) or a list of group lengths.                            *)
(***************************************************************************)
NoFormat == [given |-> FALSE, list |-> <<>>]

(* list(format) if format is not None else None *)
format_of(x) == IF x.t = "none" THEN NoFormat ELSE [given |-> TRUE, list |-> numbers(x)]

(* signature(input_format, output_format) *)
signature_init(input_format, output_format) ==
    IF input_format.t # "none" /\ ~is_int_sequence(input_format)
    THEN [err |-> "TypeError", value |-> [input_format |-> NoFormat, output_format |-> NoFormat]]
    ELSE IF output_format.t # "none" /\ ~is_int_sequence(output_format)
    THEN [err |-> "TypeError", value |-> [input_format |-> NoFormat, output_format |-> NoFormat]]
    ELSE [err |-> "none",
          value |-> [input_format |-> format_of(input_format),
                     output_format |-> format_of(output_format)]]

(* Variant: the lengths of the groups are not compared with the format. *)
signature_input_lengths_unchecked(sig, input) ==
    IF ~sig.input_format.given
    THEN IF ~is_int_sequence(input) THEN [err |-> "TypeError", out |-> <<>>]
         ELSE IF \E i \in DOMAIN input.v : input.v[i].n \notin {0, 1}
         THEN [err |-> "ValueError", out |-> <<>>]
         ELSE [err |-> "none", out |-> numbers(input)]
    ELSE IF ~is_sequence(input) \/ \E i \in DOMAIN input.v : ~is_int_sequence(input.v[i])
         THEN [err |-> "TypeError", out |-> <<>>]
         ELSE IF \E i \in DOMAIN input.v :
                    \E j \in DOMAIN input.v[i].v : input.v[i].v[j].n \notin {0, 1}
         THEN [err |-> "ValueError", out |-> <<>>]
         ELSE [err |-> "none",
               out |-> flatten([i \in DOMAIN input.v |-> numbers(input.v[i])])]

(* Variant: the groups of the output are the groups of the input format. *)
signature_output_by_input_format(sig, output_) ==
    IF ~sig.output_format.given THEN [err |-> "none", out |-> output_]
    ELSE parts(output_, sig.input_format.list)

(* signature.input(input): the flat list of the bits of input. *)
signature_input(sig, input) ==
    IF ~sig.input_format.given
    THEN IF ~is_int_sequence(input) THEN [err |-> "TypeError", out |-> <<>>]
         ELSE IF \E i \in DOMAIN input.v : input.v[i].n \notin {0, 1}
         THEN [err |-> "ValueError", out |-> <<>>]
         ELSE [err |-> "none", out |-> numbers(input)]
    ELSE IF ~is_sequence(input) \/ \E i \in DOMAIN input.v : ~is_int_sequence(input.v[i])
         THEN [err |-> "TypeError", out |-> <<>>]
         ELSE IF \E i \in DOMAIN input.v :
                    \E j \in DOMAIN input.v[i].v : input.v[i].v[j].n \notin {0, 1}
         THEN [err |-> "ValueError", out |-> <<>>]
         ELSE IF [i \in DOMAIN input.v |-> Len(input.v[i].v)] = sig.input_format.list
         THEN [err |-> "none",
               out |-> flatten([i \in DOMAIN input.v |-> numbers(input.v[i])])]
         ELSE [err |-> "ValueError", out |-> <<>>]

(* signature.output(output): the bits of output, grouped by the format. *)
signature_output(sig, output_) ==
    IF ~sig.output_format.given THEN [err |-> "none", out |-> output_]
    ELSE parts(output_, sig.output_format.list)

(***************************************************************************)
(* circuit.evaluate.  evaluate is the method between signature.input and   *)
(* signature.output: from the flat list of bits to the flat list of the    *)
(* output wires.                                                           *)
(***************************************************************************)

(* Variant: a gate that carries a mark is skipped. *)
is_computed_unless_marked(h, g) ==
    ~h[g].is_marked /\ (Len(h[g].inputs) > 0 \/ h[g].operation \in nullary)

(* A gate that gets a wire entry computed. *)
is_computed(h, g) == Len(h[g].inputs) > 0 \/ h[g].operation \in nullary

(* The loop over the gates.  wire is 1-based here, entry w of the Python   *)
(* list being wire[w + 1].  A read or write outside the list raises        *)
(* IndexError; an operation applied to an unassigned wire (None) raises    *)
(* TypeError. *)
RECURSIVE evaluate_loop(_, _, _, _)
evaluate_loop(h, gs, i, wire) ==
    IF i > Len(gs) THEN [err |-> "none", wire |-> wire]
    ELSE LET g == gs[i]
             ins == h[g].inputs
         IN IF ~is_computed(h, g) THEN evaluate_loop(h, gs, i + 1, wire)
            ELSE IF \E j \in DOMAIN ins : h[ins[j]].index >= Len(wire)
                 THEN [err |-> "IndexError", wire |-> wire]
            ELSE LET args == [j \in DOMAIN ins |-> wire[h[ins[j]].index + 1]]
                 IN IF None \in Range(args)
                    THEN [err |-> "TypeError", wire |-> wire]
                    ELSE IF h[g].index >= Len(wire)
                    THEN [err |-> "IndexError", wire |-> wire]
                    ELSE evaluate_loop(h, gs, i + 1,
                             [wire EXCEPT ![h[g].index + 1] =
                                 function(h[g].operation, args)])

(* wire[-k:] *)
last_entries(wire, k) ==
    IF k = 0 \/ k >= Len(wire) THEN wire
    ELSE SubSeq(wire, Len(wire) - k + 1, Len(wire))

evaluate(h, gs, input) ==
    LET wire == input
                \o [j \in 1..count(gs, {g \in DOMAIN h : is_computed(h, g)}) |-> None]
        r == evaluate_loop(h, gs, 1, wire)
    IN IF r.err # "none" THEN [err |-> r.err, out |-> <<>>]
       ELSE [err |-> "none",
             out |-> last_entries(r.wire,
                         count(gs, {g \in DOMAIN h :
                                       Len(h[g].outputs) = 0 /\ h[g].is_output}))]

(* c.evaluate(input) of a circuit with the signature sig. *)
circuit_evaluate(sig, h, gs, input) ==
    LET i == signature_input(sig, input)
        r == evaluate(h, gs, i.out)
    IN IF i.err # "none" THEN [err |-> i.err, out |-> <<>>]
       ELSE IF r.err # "none" THEN [err |-> r.err, out |-> <<>>]
       ELSE signature_output(sig, r.out)

(***************************************************************************)
(* gates.evaluate: evaluate a collection gs of gates on the bits input.    *)
(* wire maps a gate to its value, None standing for a gate that is not in  *)
(* the dictionary; pos is the number of bits taken from the iterator.  A   *)
(* next(input) on the exhausted iterator raises StopIteration.             *)
(***************************************************************************)
(* The entries of inputs that take a fresh bit: None, or a gate that is not *)
(* in wire. *)
is_fresh(wire, ig) == ig = None \/ wire[ig] = None

(* The number of entries among the first j of ins that take a fresh bit. *)
fresh_count(wire, ins, j) ==
    Cardinality({k \in 1..j : is_fresh(wire, ins[k])})

RECURSIVE gates_evaluate_loop(_, _, _, _, _, _)
gates_evaluate_loop(h, gs, input, i, wire, pos) ==
    IF i > Len(gs) THEN [err |-> "none", wire |-> wire]
    ELSE LET g == gs[i]
             ins == h[g].inputs
             n == arity(h[g].operation)
             taken == IF Len(ins) = 0 THEN n ELSE fresh_count(wire, ins, Len(ins))
             args == IF Len(ins) = 0 THEN [j \in 1..n |-> input[pos + j]]
                     ELSE [j \in DOMAIN ins |->
                              IF is_fresh(wire, ins[j])
                              THEN input[pos + fresh_count(wire, ins, j)]
                              ELSE wire[ins[j]]]
         IN IF Len(ins) \notin {0, n} THEN [err |-> "ValueError", wire |-> wire]
            ELSE IF pos + taken > Len(input) THEN [err |-> "StopIteration", wire |-> wire]
            ELSE gates_evaluate_loop(h, gs, input, i + 1,
                     [wire EXCEPT ![g] = function(h[g].operation, args)],
                     pos + taken)

(* Variant: the values of all gates of the collection are returned. *)
gates_evaluate_all_values(h, gs, input) ==
    LET r == gates_evaluate_loop(h, gs, input, 1, [g \in DOMAIN h |-> None], 0)
    IN IF r.err # "none" THEN [err |-> r.err, out |-> <<>>]
       ELSE [err |-> "none", out |-> [k \in DOMAIN gs |-> r.wire[gs[k]]]]

gates_evaluate(h, gs, input) ==
    LET r == gates_evaluate_loop(h, gs, input, 1, [g \in DOMAIN h |-> None], 0)
        sinks_ == SelectSeq(gs, LAMBDA g :
                      \A k \in DOMAIN h[g].outputs : h[g].outputs[k] \notin Range(gs))
    IN IF r.err # "none" THEN [err |-> r.err, out |-> <<>>]
       ELSE [err |-> "none", out |-> [k \in DOMAIN sinks_ |-> r.wire[sinks_[k]]]]

(***************************************************************************)
(* circuit.to_logical.                                                     *)
(***************************************************************************)
(* The k-th tuple (from 0) of itertools.product over n copies of [0, 1]. *)
product_tuple(n, k) == [i \in 1..n |-> (k \div (2 ^ (n - i))) % 2]

(* One entry of the truth table: evaluate(...)[0] without an input format, *)
(* evaluate(...)[0][0] with one.  Subscripting an empty list raises        *)
(* IndexError, subscripting a bit or None raises TypeError. *)
to_logical_entry(sig, h, gs, t) ==
    IF ~sig.input_format.given
    THEN LET r == circuit_evaluate(sig, h, gs, bit_list(t))
         IN IF r.err # "none" THEN [err |-> r.err, out |-> <<>>]
            ELSE IF Len(r.out) = 0 THEN [err |-> "IndexError", out |-> <<>>]
            ELSE [err |-> "none", out |-> <<r.out[1]>>]
    ELSE LET p == parts(t, sig.input_format.list)
             r == circuit_evaluate(sig, h, gs, group_list(p.out))
         IN IF p.err # "none" THEN [err |-> p.err, out |-> <<>>]
            ELSE IF r.err # "none" THEN [err |-> r.err, out |-> <<>>]
            ELSE IF Len(r.out) = 0 THEN [err |-> "IndexError", out |-> <<>>]
            ELSE IF ~sig.output_format.given THEN [err |-> "TypeError", out |-> <<>>]
            ELSE IF Len(r.out[1]) = 0 THEN [err |-> "IndexError", out |-> <<>>]
            ELSE [err |-> "none", out |-> <<r.out[1][1]>>]

(* The entries for the tuples k, k + 1, ... in order, up to the first error. *)
RECURSIVE to_logical_entries(_, _, _, _, _)
to_logical_entries(sig, h, gs, n, k) ==
    IF k >= 2 ^ n THEN [err |-> "none", out |-> <<>>]
    ELSE LET e == to_logical_entry(sig, h, gs, product_tuple(n, k))
             rest == to_logical_entries(sig, h, gs, n, k + 1)
         IN IF e.err # "none" THEN e
            ELSE IF rest.err # "none" THEN rest
            ELSE [err |-> "none", out |-> e.out \o rest.out]

to_logical(sig, h, gs) ==
    IF count(gs, {g \in DOMAIN h : h[g].is_output}) # 1
    THEN [err |-> "ValueError", out |-> <<>>]
    ELSE to_logical_entries(sig, h, gs, count(gs, {g \in DOMAIN h : h[g].is_input}), 0)

(***************************************************************************)
(* The state machine: one circuit object driven by a caller.  last records *)
(* the latest call and its outcome, prev the graph before that call.       *)
(***************************************************************************)
Snapshot == [heap |-> heap, gates |-> gates]

(* The inputs arguments a caller can pass: None, or a new list of at most *)
(* two entries, each a gate created so far or the placeholder None. *)
InputsArgs(h) ==
    {[given |-> FALSE, list |-> <<>>, of |-> None]} \cup
    {[given |-> TRUE, list |-> l, of |-> None] :
        l \in UNION {[1..k -> DOMAIN h \cup {None}] : k \in 0..2}}

(* The inputs argument g.inputs: the list object that the gate g holds. *)
SharedInputsArgs(h) ==
    {[given |-> TRUE, list |-> h[g].inputs, of |-> g] : g \in DOMAIN h}

(* The outputs arguments a caller can pass: None (an empty list has the *)
(* same effect), or a list of one gate created so far. *)
OutputsArgs(h) ==
    {[given |-> FALSE, list |-> <<>>]} \cup
    {[given |-> TRUE, list |-> <<g>>] : g \in DOMAIN h}

Init ==
    /\ heap = <<>>
    /\ gates = <<>>
    /\ is_gates = TRUE
    /\ signature = [input_format |-> NoFormat, output_format |-> NoFormat]
    /\ last = [name |-> "init", err |-> "none", out |-> <<>>]
    /\ prev = [heap |-> <<>>, gates |-> <<>>]

(* c.gate(operation, inputs, outputs, is_input=..., is_output=...), for a *)
(* caller that creates at most MaxGates gate objects and passes a new     *)
(* inputs list or the list that an earlier gate holds. *)
Gate ==
    \E operation \in Ops,
       inputs \in InputsArgs(heap) \cup SharedInputsArgs(heap),
       outputs \in OutputsArgs(heap),
       is_input \in BOOLEAN, is_output \in BOOLEAN :
        LET r == circuit_gate(heap, gates, is_gates,
                              operation, inputs, outputs, is_input, is_output)
        IN /\ Len(heap) < MaxGates
           /\ heap' = r.heap
           /\ gates' = r.gates
           /\ is_gates' = is_gates
           /\ signature' = signature
           /\ last' = [name |-> "gate", err |-> r.err, out |-> <<>>]
           /\ prev' = Snapshot

(* c.prune_and_topological_sort_stable(); the list may repeat a gate and *)
(* grow with every call, so the model stops at MaxLen entries. *)
Prune ==
    LET r == prune_and_topological_sort_stable(heap, gates)
    IN /\ Len(r.gates) <= MaxLen
       /\ heap' = r.heap
       /\ gates' = r.gates
       /\ is_gates' = IF r.err = "none" THEN FALSE ELSE is_gates
       /\ signature' = signature
       /\ last' = [name |-> "prune", err |-> r.err, out |-> <<>>]
       /\ prev' = Snapshot

(* The values a caller passes to evaluate: a list of at most MaxBits bits. *)
EvaluateArgs == {bit_list(bits) : bits \in BitVectors(MaxBits)}

(* c.evaluate(input) *)
Evaluate ==
    \E input \in EvaluateArgs :
        LET r == circuit_evaluate(signature, heap, gates, input)
        IN /\ last' = [name |-> "evaluate", err |-> r.err, out |-> r.out]
           /\ prev' = Snapshot
           /\ UNCHANGED <<heap, gates, is_gates, signature>>

Next == Gate \/ Prune \/ Evaluate

Spec == Init /\ [][Next]_vars

(* c.to_logical() *)
ToLogical ==
    LET r == to_logical(signature, heap, gates)
    IN /\ last' = [name |-> "to_logical", err |-> r.err, out |-> r.out]
       /\ prev' = Snapshot
       /\ UNCHANGED <<heap, gates, is_gates, signature>>

(* c.gates.gate(operation, inputs, outputs): the method of the collection, *)
(* which accepts the placeholder None, called without the role flags, with *)
(* a new inputs list or with the list that an earlier gate holds. *)
GatesGate ==
    \E operation \in Ops,
       inputs \in InputsArgs(heap) \cup SharedInputsArgs(heap),
       outputs \in OutputsArgs(heap) :
        LET r == gates_gate(heap, gates, operation, inputs, outputs, FALSE, FALSE)
        IN /\ Len(heap) < MaxCollection
           /\ is_gates
           /\ heap' = r.heap
           /\ gates' = r.gates
           /\ last' = [name |-> "gates.gate", err |-> r.err, out |-> <<>>]
           /\ prev' = Snapshot
           /\ UNCHANGED <<is_gates, signature>>

(* del g.inputs[1] by the caller, for a gate g of a finished collection *)
(* that has a second entry. *)
DelInput ==
    \E g \in DOMAIN heap :
        /\ Len(heap) = MaxCollection
        /\ Len(heap[g].inputs) >= 2
        /\ heap' = del_inputs_entry(heap, g)
        /\ last' = [name |-> "del", err |-> "none", out |-> <<>>]
        /\ prev' = Snapshot
        /\ UNCHANGED <<gates, is_gates, signature>>

(* The collections a caller evaluates: gates(l) for a list l of some of   *)
(* the gates of c.gates in their order, or of all of them in reverse. *)
RECURSIVE SubLists(_)
SubLists(l) ==
    IF l = <<>> THEN {<<>>}
    ELSE LET rest == SubLists(Tail(l))
         IN rest \cup {<<Head(l)>> \o r : r \in rest}

Reverse(l) == [i \in DOMAIN l |-> l[Len(l) + 1 - i]]

Collections(gs) == SubLists(gs) \cup {Reverse(gs)}

(* gates(l).evaluate(input), for a caller that supplies MaxBits bits. *)
GatesEvaluate ==
    \E gs \in Collections(gates), input \in [1..MaxBits -> {0, 1}] :
        LET r == gates_evaluate(heap, gs, input)
        IN /\ last' = [name |-> "gates.evaluate", err |-> r.err, out |-> r.out]
           /\ prev' = Snapshot
           /\ UNCHANGED <<heap, gates, is_gates, signature>>

(* gate(operation, inputs, outputs, is_input, is_output): the constructor, *)
(* called by the caller; the new object is in no collection. *)
GateInit ==
    \E operation \in Ops,
       inputs \in InputsArgs(heap) \cup SharedInputsArgs(heap),
       outputs \in OutputsArgs(heap),
       is_input \in BOOLEAN, is_output \in BOOLEAN :
        LET r == gate_init(heap, operation, inputs, outputs, is_input, is_output)
        IN /\ Len(heap) < MaxCollection
           /\ heap' = r.heap
           /\ last' = [name |-> "gate.__init__", err |-> r.err, out |-> <<>>]
           /\ prev' = Snapshot
           /\ UNCHANGED <<gates, is_gates, signature>>

(* g.output(other), called by the caller on two gates it holds. *)
Output ==
    \E g \in DOMAIN heap, other \in DOMAIN heap :
        /\ heap' = output(heap, g, other)
        /\ last' = [name |-> "output", err |-> "none", out |-> <<>>]
        /\ prev' = Snapshot
        /\ UNCHANGED <<gates, is_gates, signature>>

(* Gate objects built with the constructor or with gates.gate and wired by *)
(* the caller. *)
NextObjects == GateInit \/ GatesGate \/ Output

SpecObjects == Init /\ [][NextObjects]_vars

(* Collections of gates and their evaluation. *)
NextGates == GatesGate \/ DelInput \/ GatesEvaluate

SpecGates == Init /\ [][NextGates]_vars

(* The formats a caller configures: groups of one bit or more, of at most *)
(* MaxBits bits together. *)
Formats ==
    {f \in UNION {[1..k -> 1..MaxBits] : k \in 0..MaxBits} : Sum(f) <= MaxBits}

(* The format arguments of signature(...): None, a list of lengths, or a *)
(* value that is no list of integers. *)
FormatArgs ==
    {PyNone, PyStr, PyList(<<PyStr>>), PyTuple(<<PyInt(1)>>)} \cup
    {PyList([i \in DOMAIN f |-> PyInt(f[i])]) : f \in Formats}

(* The bits of a list in groups of the lengths f: group i holds the f[i] *)
(* bits that follow the first f[1] + ... + f[i - 1]. *)
Regroup(bits, f) ==
    [i \in DOMAIN f |-> [j \in 1..f[i] |-> bits[Sum(SubSeq(f, 1, i - 1)) + j]]]

(* The values a caller passes to signature.input: bits in groups of the    *)
(* lengths of some format, as a list of lists, a tuple of lists or a list  *)
(* of tuples; a list or tuple of bits; and values with an entry that is no *)
(* bit, no int or no sequence. *)
GroupedBits ==
    UNION {{Regroup(bits, f) : bits \in [1..Sum(f) -> {0, 1}]} : f \in Formats}

Values ==
    UNION {{group_list(gs), PyTuple(group_list(gs).v),
            PyList([i \in DOMAIN gs |-> PyTuple(bit_list(gs[i]).v)])} :
               gs \in GroupedBits} \cup
    UNION {{bit_list(bits), PyTuple(bit_list(bits).v)} : bits \in BitVectors(MaxBits)} \cup
    {PyInt(1), PyStr, PyList(<<PyInt(2)>>), PyList(<<PyStr>>),
     group_list(<<(<<2>>)>>), PyList(<<PyList(<<PyStr>>)>>),
     PyList(<<bit_list(<<1>>), PyInt(1)>>), PyList(<<bit_list(<<1>>), PyStr>>)}

(* c.signature = signature(input_format, output_format); the assignment *)
(* does not happen when the constructor raises. *)
SetSignature ==
    \E input_format \in FormatArgs, output_format \in FormatArgs :
        LET r == signature_init(input_format, output_format)
        IN /\ signature' = IF r.err = "none" THEN r.value ELSE signature
           /\ last' = [name |-> "signature", err |-> r.err, out |-> <<>>]
           /\ prev' = Snapshot
           /\ UNCHANGED <<heap, gates, is_gates>>

(* c.signature.input(input) *)
SignatureInput ==
    \E input \in Values :
        LET r == signature_input(signature, input)
        IN /\ last' = [name |-> "input", err |-> r.err, out |-> r.out]
           /\ prev' = Snapshot
           /\ UNCHANGED <<heap, gates, is_gates, signature>>

(* c.signature.output(output) for a flat list of bits. *)
SignatureOutput ==
    \E output_ \in BitVectors(MaxBits) :
        LET r == signature_output(signature, output_)
        IN /\ last' = [name |-> "output", err |-> r.err, out |-> r.out]
           /\ prev' = Snapshot
           /\ UNCHANGED <<heap, gates, is_gates, signature>>

(* The signature of a circuit and its conversions. *)
NextSignature == SetSignature \/ SignatureInput \/ SignatureOutput \/ Evaluate

SpecSignature == Init /\ [][NextSignature]_vars

(* Building circuits and converting them to truth tables. *)
NextLogical == Gate \/ ToLogical

SpecLogical == Init /\ [][NextLogical]_vars

(* Building and evaluating. *)
NextEval == Gate \/ Evaluate

SpecEval == Init /\ [][NextEval]_vars

(* The calls that change the graph.  evaluate leaves heap, gates and *)
(* is_gates as they are, so the graphs reachable under SpecBuild are the *)
(* graphs reachable under Spec. *)
NextBuild == Gate \/ Prune

SpecBuild == Init /\ [][NextBuild]_vars

(* gates.mark(g), called on a gate the caller holds a reference to, by a *)
(* caller that marks once it has created its MaxGates gate objects. *)
Mark ==
    \E g \in DOMAIN heap :
        /\ Len(heap) = MaxGates
        /\ heap' = mark(heap, g)
        /\ last' = [name |-> "mark", err |-> "none", out |-> <<>>]
        /\ prev' = Snapshot
        /\ UNCHANGED <<gates, is_gates, signature>>

(* Building and standalone marking. *)
NextMark == Gate \/ Mark

SpecMark == Init /\ [][NextMark]_vars

(***************************************************************************)
(* circuit.depth.  The predicate is given as the set P of the gates that   *)
(* satisfy it.  depths is the dictionary so far: entry p of the sequence   *)
(* is depths[p - 1].                                                       *)
(***************************************************************************)
(* self.gates.index(g): the 0-based position of the first occurrence. *)
list_index(gs, g) == (CHOOSE p \in DOMAIN gs :
                         gs[p] = g /\ \A q \in DOMAIN gs : gs[q] = g => p <= q) - 1

Max(S) == CHOOSE m \in S : \A n \in S : n <= m

(* The inputs of the gate whose look-up raises: a gate that is not in the *)
(* list (ValueError of list.index) or whose depth is not in the           *)
(* dictionary yet (KeyError). *)
depth_bad_inputs(gs, ins, depths) ==
    {k \in DOMAIN ins :
        ins[k] \notin Range(gs) \/ list_index(gs, ins[k]) >= Len(depths)}

RECURSIVE depth_loop(_, _, _, _, _)
depth_loop(h, gs, i, depths, P) ==
    IF i > Len(gs) THEN [err |-> "none", depths |-> depths]
    ELSE LET ins == h[gs[i]].inputs
             bad == depth_bad_inputs(gs, ins, depths)
         IN IF bad # {}
            THEN LET k == CHOOSE k \in bad : \A l \in bad : k <= l
                 IN [err |-> IF ins[k] \notin Range(gs) THEN "ValueError"
                             ELSE "KeyError",
                     depths |-> depths]
            ELSE depth_loop(h, gs, i + 1,
                     Append(depths,
                            (IF gs[i] \in P THEN 1 ELSE 0)
                            + Max({0} \cup {depths[list_index(gs, ins[k]) + 1] :
                                              k \in DOMAIN ins})),
                     P)

depth(h, gs, P) ==
    LET r == depth_loop(h, gs, 1, <<>>, P)
    IN IF r.err # "none" THEN [err |-> r.err, value |-> 0]
       ELSE [err |-> "none", value |-> Max({0} \cup Range(r.depths))]

(***************************************************************************)
(* gates.to_legible: for each gate the name of its operation and the       *)
(* positions of its inputs (self.index(gi), or None for a placeholder).    *)
(* isg tells whether the object is an instance of the class gates.         *)
(***************************************************************************)
to_legible(h, gs, isg) ==
    IF ~isg THEN [err |-> "AttributeError", out |-> <<>>]
    ELSE IF \E i \in DOMAIN gs : \E j \in DOMAIN h[gs[i]].inputs :
                h[gs[i]].inputs[j] # None /\ h[gs[i]].inputs[j] \notin Range(gs)
    THEN [err |-> "ValueError", out |-> <<>>]
    ELSE [err |-> "none",
          out |-> [i \in DOMAIN gs |->
                      [name |-> h[gs[i]].operation,
                       inputs |-> [j \in DOMAIN h[gs[i]].inputs |->
                                      IF h[gs[i]].inputs[j] = None THEN None
                                      ELSE list_index(gs, h[gs[i]].inputs[j])]]]]

(* c.depth(predicate) *)
Depth ==
    \E P \in SUBSET DOMAIN heap :
        LET r == depth(heap, gates, P)
        IN /\ last' = [name |-> "depth", err |-> r.err, out |-> <<r.value>>]
           /\ prev' = Snapshot
           /\ UNCHANGED <<heap, gates, is_gates, signature>>

(* Building, pruning and depth analysis. *)
NextDepth == Gate \/ Prune \/ Depth

SpecDepth == Init /\ [][NextDepth]_vars

TypeOK ==
    /\ Range(gates) \subseteq DOMAIN heap
    /\ Len(heap) <= MaxGates
    /\ is_gates \in BOOLEAN

(***************************************************************************)
(* Properties.                                                             *)
(***************************************************************************)
(* The latest call was a prune that returned. *)
Pruned == last.name = "prune" /\ last.err = "none"

(* Gates reachable from the set S by following inputs references. *)
RECURSIVE BackReach(_, _)
BackReach(h, S) ==
    LET T == S \cup UNION {Range(h[g].inputs) : g \in S}
    IN IF T = S THEN S ELSE BackReach(h, T)

(* Gates reachable from the set S by following outputs references. *)
RECURSIVE ForwardReach(_, _)
ForwardReach(h, S) ==
    LET T == S \cup UNION {Range(h[g].outputs) : g \in S}
    IN IF T = S THEN S ELSE ForwardReach(h, T)

InputGates(h, gs) == SelectSeq(gs, LAMBDA g : h[g].is_input)

OutputGates(h, gs) == SelectSeq(gs, LAMBDA g : h[g].is_output)

IsInterior(h, g) == ~h[g].is_input /\ ~h[g].is_output

NoDuplicates(s) == \A i, j \in DOMAIN s : s[i] = s[j] => i = j

(* C1: evaluate returns the same output before and after a prune, for every *)
(* input that evaluate accepts on the circuit before the prune. *)
C1_PrunePreservesEvaluate ==
    Pruned =>
        \A input \in BitVectors(MaxBits) :
            evaluate(prev.heap, prev.gates, input).err = "none" =>
                evaluate(heap, gates, input) = evaluate(prev.heap, prev.gates, input)

(* C2: a second prune leaves the gate sequence and the index values that *)
(* the first prune produced. *)
C2_PruneIdempotent ==
    Pruned =>
        LET r == prune_and_topological_sort_stable(heap, gates)
        IN /\ r.err = "none"
           /\ r.gates = gates
           /\ \A i \in DOMAIN gates : r.heap[gates[i]].index = heap[gates[i]].index

(* C3: a failing circuit.gate call leaves the length of the gate collection *)
(* and the outputs list of every existing gate as they were. *)
C3_GateTransactional ==
    (last.name = "gate" /\ last.err # "none") =>
        /\ Len(gates) = Len(prev.gates)
        /\ gates = prev.gates
        /\ DOMAIN heap = DOMAIN prev.heap
        /\ \A g \in DOMAIN prev.heap : heap[g].outputs = prev.heap[g].outputs

(* A call was rejected by gate.__init__ on a circuit in which some gate *)
(* already has a consumer. *)
C3_Witness ==
    /\ last.name = "gate"
    /\ last.err \in {"output_reuse", "gate_arity"}
    /\ \E g \in DOMAIN heap : Len(heap[g].outputs) > 0

(* The value of a gate: the bit of its rank for an input gate, the *)
(* operation applied to the values of its inputs otherwise. *)
RECURSIVE Value(_, _, _, _)
Value(h, gs, input, g) ==
    IF h[g].is_input
    THEN input[CHOOSE i \in DOMAIN InputGates(h, gs) : InputGates(h, gs)[i] = g]
    ELSE function(h[g].operation,
                  [j \in DOMAIN h[g].inputs |-> Value(h, gs, input, h[g].inputs[j])])

(* The input gates lead and the output gates trail. *)
Disciplined(h, gs) ==
    /\ \A i \in DOMAIN gs : h[gs[i]].is_input <=> i <= Len(InputGates(h, gs))
    /\ \A i \in DOMAIN gs :
          h[gs[i]].is_output <=> i > Len(gs) - Len(OutputGates(h, gs))

(* C4: on a circuit with leading input gates and trailing output gates and *)
(* one bit per input gate, evaluate returns the value of each output gate, *)
(* in position order. *)
C4_EvaluateComputesOutputs ==
    Disciplined(heap, gates) =>
        \A input \in BitVectors(MaxBits) :
            Len(input) = Len(InputGates(heap, gates)) =>
                evaluate(heap, gates, input) =
                    [err |-> "none",
                     out |-> [j \in DOMAIN OutputGates(heap, gates) |->
                                Value(heap, gates, input, OutputGates(heap, gates)[j])]]

(* C5: the result of evaluate has one entry, 0 or 1, for each gate flagged *)
(* is_output. *)
C5_OneBitPerOutputGate ==
    (last.name = "evaluate" /\ last.err = "none") =>
        /\ Len(last.out) = Len(OutputGates(heap, gates))
        /\ \A i \in DOMAIN last.out : last.out[i] \in {0, 1}

(* C6: every input gate and every output gate of the collection is still *)
(* in the collection after a prune, and their numbers are unchanged. *)
C6_PruneKeepsInputsAndOutputs ==
    Pruned =>
        /\ \A g \in Range(prev.gates) :
              (heap[g].is_input \/ heap[g].is_output) => g \in Range(gates)
        /\ Len(InputGates(heap, gates)) = Len(InputGates(prev.heap, prev.gates))
        /\ Len(OutputGates(heap, gates)) = Len(OutputGates(prev.heap, prev.gates))

(* C7: after a prune the sequence is the input gates, then the surviving *)
(* interior gates, then the output gates, each block in its previous      *)
(* relative order and every gate once. *)
C7_ThreeBlocks ==
    Pruned =>
        /\ gates = InputGates(prev.heap, prev.gates)
                   \o SelectSeq(prev.gates,
                                LAMBDA g : IsInterior(heap, g) /\ g \in Range(gates))
                   \o OutputGates(prev.heap, prev.gates)
        /\ NoDuplicates(gates)

(* C8: after a prune, an interior gate of the previous collection is in    *)
(* the collection exactly if an output gate was reachable from it through  *)
(* outputs references, equivalently if it was reachable from an output     *)
(* gate through inputs references. *)
C8_InteriorSurvivesIffReachesOutput ==
    Pruned =>
        \A g \in Range(prev.gates) :
            IsInterior(prev.heap, g) =>
                /\ g \in Range(gates) <=>
                      \E o \in ForwardReach(prev.heap, {g}) :
                          o \in Range(prev.gates) /\ prev.heap[o].is_output
                /\ g \in Range(gates) <=>
                      \E o \in Range(prev.gates) :
                          prev.heap[o].is_output /\ g \in BackReach(prev.heap, {o})

(* C9: a prune call never raises. *)
C9_PruneNeverFails == last.name = "prune" => last.err = "none"

(* The latest call added a gate that is neither an input gate nor an *)
(* output gate (as the newest gate it has no consumer). *)
DeadGateAdded ==
    /\ last.name = "gate" /\ last.err = "none"
    /\ IsInterior(heap, gates[Len(gates)])

(* C10: adding a dead gate increases count() by one, and a prune of the    *)
(* circuit with the dead gate gives the gate sequence, the count and the   *)
(* evaluate results of a prune of the circuit without it. *)
C10_DeadGateIsPrunedAway ==
    DeadGateAdded =>
        LET with == prune_and_topological_sort_stable(heap, gates)
            without == prune_and_topological_sort_stable(prev.heap, prev.gates)
        IN /\ Len(gates) = Len(prev.gates) + 1
           /\ with.err = "none" /\ without.err = "none"
           /\ with.gates = without.gates
           /\ Len(with.gates) = Len(without.gates)
           /\ \A input \in BitVectors(MaxBits) :
                 evaluate(with.heap, with.gates, input)
                     = evaluate(without.heap, without.gates, input)

(***************************************************************************)
(* The contract of circuit.gate, stated in every reachable state for every *)
(* call a caller can make there.                                           *)
(***************************************************************************)
(* The error raised by each message of the two constructors. *)
RoleErrors == {"input_role", "output_role"}

ArityErrors == {"inputs_unspecified", "circuit_arity", "gate_arity"}

(* A role flag is set on an operation that is not the identity. *)
RoleViolation(operation, is_input, is_output) ==
    (is_input \/ is_output) /\ operation # "id"

(* Some entry of inputs is a gate flagged is_output. *)
HasOutputInput(h, inputs) ==
    inputs.given /\ \E i \in DOMAIN inputs.list :
                       inputs.list[i] # None /\ h[inputs.list[i]].is_output

(* No entry of inputs is the placeholder None. *)
NoPlaceholder(inputs) == ~(inputs.given /\ None \in Range(inputs.list))

(* The number of supplied inputs is the arity of the operation. *)
CountMatches(operation, inputs) ==
    IF inputs.given THEN Len(inputs.list) = arity(operation)
    ELSE arity(operation) = 0

(* C11: a call with a role flag on an operation other than the identity *)
(* fails with the role error, whatever the other arguments are. *)
C11_RoleErrorWhatever ==
    \A operation \in Ops, inputs \in InputsArgs(heap), outputs \in OutputsArgs(heap),
       is_input \in BOOLEAN, is_output \in BOOLEAN :
        RoleViolation(operation, is_input, is_output) =>
            circuit_gate(heap, gates, is_gates,
                         operation, inputs, outputs, is_input, is_output).err \in RoleErrors

(* C11 as amended: such a call never succeeds; its error is the role     *)
(* error when no earlier check of circuit.gate rejects the call: inputs    *)
(* holds no None placeholder, the input count of a non-input gate matches  *)
(* the arity, and the collection is a gates instance (no prune has         *)
(* replaced it by a plain list). *)
C11_RoleErrorAfterCircuitChecks ==
    \A operation \in Ops, is_input \in BOOLEAN, is_output \in BOOLEAN :
        RoleViolation(operation, is_input, is_output) =>
          \A inputs \in InputsArgs(heap), outputs \in OutputsArgs(heap) :
            LET r == circuit_gate(heap, gates, is_gates,
                                  operation, inputs, outputs, is_input, is_output)
            IN /\ r.err # "none"
               /\ (/\ NoPlaceholder(inputs)
                   /\ (is_input \/ CountMatches(operation, inputs))
                   /\ is_gates) => r.err \in RoleErrors

(* A call was rejected with the role error on a circuit that has gates. *)
C11_Witness ==
    /\ last.name = "gate" /\ last.err = "output_role"
    /\ Len(gates) > 0

(* C12: a call whose inputs hold a gate flagged is_output fails with the *)
(* output-reuse error. *)
C12_OutputReuseWhatever ==
    \A operation \in Ops, inputs \in InputsArgs(heap), outputs \in OutputsArgs(heap),
       is_input \in BOOLEAN, is_output \in BOOLEAN :
        HasOutputInput(heap, inputs) =>
            circuit_gate(heap, gates, is_gates,
                         operation, inputs, outputs, is_input, is_output).err = "output_reuse"

(* C12 as amended: such a call never succeeds; its error is the          *)
(* output-reuse error when no earlier check rejects the call: inputs holds *)
(* no None placeholder, the input count of a non-input gate matches the    *)
(* arity, the collection is a gates instance, and no role flag is set on   *)
(* an operation other than the identity. *)
C12_OutputReuseAfterEarlierChecks ==
    \A inputs \in InputsArgs(heap) :
        HasOutputInput(heap, inputs) =>
          \A operation \in Ops, outputs \in OutputsArgs(heap),
             is_input \in BOOLEAN, is_output \in BOOLEAN :
            LET r == circuit_gate(heap, gates, is_gates,
                                  operation, inputs, outputs, is_input, is_output)
            IN /\ r.err # "none"
               /\ (/\ NoPlaceholder(inputs)
                   /\ (is_input \/ CountMatches(operation, inputs))
                   /\ is_gates
                   /\ ~RoleViolation(operation, is_input, is_output))
                      => r.err = "output_reuse"

(* A call was rejected with the output-reuse error. *)
C12_Witness ==
    /\ last.name = "gate" /\ last.err = "output_reuse"
    /\ \E g \in Range(gates) : heap[g].is_output

(* C13: a non-input call fails with the arity error when inputs is absent   *)
(* for an operation of arity above 0 or present with a length other than    *)
(* the arity; a non-input call with a matching input count, no output gate  *)
(* among its inputs and a legal role succeeds. *)
C13_ArityErrorOrSuccess ==
    \A operation \in Ops, inputs \in InputsArgs(heap),
       outputs \in OutputsArgs(heap), is_output \in BOOLEAN :
        LET r == circuit_gate(heap, gates, is_gates,
                              operation, inputs, outputs, FALSE, is_output)
        IN /\ ~CountMatches(operation, inputs) => r.err \in ArityErrors
           /\ (/\ CountMatches(operation, inputs)
               /\ ~HasOutputInput(heap, inputs)
               /\ ~RoleViolation(operation, FALSE, is_output)) => r.err = "none"

(* C13 as amended: with is_input false, a call whose inputs hold a None   *)
(* placeholder fails with the placeholder error, whatever the input count  *)
(* is.  Without a placeholder, a call whose input count does not match the *)
(* arity fails with the arity error.  A call with a matching input count   *)
(* and no placeholder fails with AttributeError when a prune has replaced  *)
(* the collection by a plain list, whatever its other arguments are; on a  *)
(* collection that is a gates instance it succeeds and appends one gate    *)
(* when no input is an output gate and the role is legal. *)
C13_ArityErrorAfterPlaceholderCheck ==
    \A operation \in Ops, inputs \in InputsArgs(heap),
       outputs \in OutputsArgs(heap), is_output \in BOOLEAN :
        LET r == circuit_gate(heap, gates, is_gates,
                              operation, inputs, outputs, FALSE, is_output)
        IN IF ~NoPlaceholder(inputs) THEN r.err = "none_placeholder"
           ELSE IF ~CountMatches(operation, inputs) THEN r.err \in ArityErrors
           ELSE IF ~is_gates THEN r.err = "AttributeError"
           ELSE (/\ ~HasOutputInput(heap, inputs)
                 /\ ~RoleViolation(operation, FALSE, is_output)) =>
                    /\ r.err = "none"
                    /\ Len(r.gates) = Len(gates) + 1

(* A non-input call was rejected with the arity error, and another one *)
(* that named an input gate succeeded before it. *)
C13_Witness ==
    /\ last.name = "gate" /\ last.err \in {"inputs_unspecified", "circuit_arity"}
    /\ \E g \in Range(gates) : ~heap[g].is_input /\ Len(heap[g].inputs) > 0

(***************************************************************************)
(* Invariants of the gate collection.                                      *)
(***************************************************************************)
(* C14: every gate of the collection has as many inputs as the arity of its *)
(* operation when it is not an input gate, and no inputs when it is one.    *)
C14_InputsMatchArity ==
    \A g \in Range(gates) :
        IF heap[g].is_input THEN Len(heap[g].inputs) = 0
        ELSE Len(heap[g].inputs) = arity(heap[g].operation)

(* C15: the index field of every gate of the collection is the position of *)
(* the gate in the sequence. *)
C15_IndexIsPosition ==
    \A i \in DOMAIN gates : heap[gates[i]].index = i - 1

(* C16: every gate listed in the inputs of a gate of the collection is in *)
(* the collection, at a strictly smaller position than that gate. *)
C16_TopologicallyOrdered ==
    \A i \in DOMAIN gates :
        \A k \in DOMAIN heap[gates[i]].inputs :
            /\ heap[gates[i]].inputs[k] \in Range(gates)
            /\ \A j \in DOMAIN gates :
                  gates[j] = heap[gates[i]].inputs[k] => j < i

(* C17: no gate flagged is_output is listed in the inputs of a gate; every *)
(* output gate has an empty outputs list, and the gates that prune takes   *)
(* as its outputs are the gates flagged is_output. *)
C17_OutputGatesAreSinks ==
    /\ \A g \in DOMAIN heap :
          \A k \in DOMAIN heap[g].inputs :
              heap[g].inputs[k] # None => ~heap[heap[g].inputs[k]].is_output
    /\ \A g \in DOMAIN heap : heap[g].is_output => heap[g].outputs = <<>>
    /\ SelectSeq(gates, LAMBDA g : is_gate_output(heap, g))
           = OutputGates(heap, gates)

(* The first part alone: no gate flagged is_output is listed in the inputs *)
(* of a gate. *)
C17_OutputGatesAreNotInputs ==
    \A g \in DOMAIN heap :
        \A k \in DOMAIN heap[g].inputs :
            heap[g].inputs[k] # None => ~heap[heap[g].inputs[k]].is_output

(* C18: a successful circuit.gate call creates one gate, appends it at the *)
(* position that was the count, lists it once in the outputs of each of    *)
(* its input gates, and leaves everything else of the other gates as it    *)
(* was. *)
C18_GateAppendsOne ==
    (last.name = "gate" /\ last.err = "none") =>
        LET new == Len(heap)
        IN /\ Len(heap) = Len(prev.heap) + 1
           /\ gates = Append(prev.gates, new)
           /\ heap[new].index = Len(prev.gates)
           /\ Range(heap[new].outputs) \subseteq DOMAIN prev.heap
           /\ \A g \in DOMAIN prev.heap :
                 /\ heap[g].operation = prev.heap[g].operation
                 /\ heap[g].inputs = prev.heap[g].inputs
                 /\ heap[g].index = prev.heap[g].index
                 /\ heap[g].is_input = prev.heap[g].is_input
                 /\ heap[g].is_output = prev.heap[g].is_output
                 /\ heap[g].is_marked = prev.heap[g].is_marked
                 /\ heap[g].outputs =
                        IF g \in Range(heap[new].inputs)
                        THEN Append(prev.heap[g].outputs, new)
                        ELSE prev.heap[g].outputs

(* A gate that lists the same gate twice in its inputs was added. *)
C18_Witness ==
    /\ last.name = "gate" /\ last.err = "none"
    /\ Len(heap[Len(heap)].inputs) = 2
    /\ heap[Len(heap)].inputs[1] = heap[Len(heap)].inputs[2]
    /\ Len(prev.heap[heap[Len(heap)].inputs[1]].outputs) > 0

(***************************************************************************)
(* gates.mark.                                                             *)
(***************************************************************************)
Marked(h) == {x \in DOMAIN h : h[x].is_marked}

(* Gates reachable from the set S through inputs references that lead to *)
(* gates that are not marked in h. *)
RECURSIVE UnmarkedReach(_, _)
UnmarkedReach(h, S) ==
    LET T == S \cup {x \in UNION {Range(h[g].inputs) : g \in S} : ~h[x].is_marked}
    IN IF T = S THEN S ELSE UnmarkedReach(h, T)

(* C19: after gates.mark(g), for a gate g of the circuit, the marked gates *)
(* are the gates reachable from g through inputs references: each of them, *)
(* and no other gate. *)
C19_MarkMarksExactlyReachable ==
    \A g \in Range(gates) :
        Marked(mark(heap, g)) = BackReach(heap, {g})

(* C19 as amended: gates.mark(g) only adds marks: the gates marked after  *)
(* the call are the gates marked before it and, when g was not marked, the *)
(* gates reachable from g through gates that were not marked.  When no     *)
(* gate is marked before the call, the marked gates are exactly the gates  *)
(* reachable from g.  Nothing but is_marked is written. *)
C19_MarkAddsReachable ==
    /\ \A g \in Range(gates) :
          LET h == mark(heap, g)
          IN /\ Marked(h) = Marked(heap) \cup
                    (IF heap[g].is_marked THEN {} ELSE UnmarkedReach(heap, {g}))
             /\ Marked(heap) = {} => Marked(h) = BackReach(heap, {g})
    /\ last.name = "mark" =>
          /\ gates = prev.gates
          /\ DOMAIN heap = DOMAIN prev.heap
          /\ \A x \in DOMAIN heap : [heap[x] EXCEPT !.is_marked = FALSE]
                                     = [prev.heap[x] EXCEPT !.is_marked = FALSE]

(* gates.mark was called on a circuit without marks and marked a gate *)
(* together with a gate it reads, and left another gate unmarked. *)
C19_Witness ==
    /\ last.name = "mark"
    /\ Marked(prev.heap) = {}
    /\ \E g \in Range(gates) :
          /\ Len(heap[g].inputs) > 0
          /\ heap[g].is_marked /\ heap[heap[g].inputs[1]].is_marked
    /\ \E g \in Range(gates) : ~heap[g].is_marked

(***************************************************************************)
(* circuit.depth.                                                          *)
(***************************************************************************)
(* The largest number of gates of P on a path of inputs references that *)
(* ends in g. *)
RECURSIVE PathWeight(_, _, _)
PathWeight(h, P, g) ==
    (IF g \in P THEN 1 ELSE 0)
    + Max({0} \cup {PathWeight(h, P, h[g].inputs[k]) : k \in DOMAIN h[g].inputs})

(* C20: depth(predicate) returns the largest number of gates satisfying    *)
(* the predicate on a path of inputs references of the circuit, 0 for a    *)
(* circuit without gates. *)
C20_DepthIsLongestPath ==
    \A P \in SUBSET DOMAIN heap :
        depth(heap, gates, P) =
            [err |-> "none",
             value |-> Max({0} \cup {PathWeight(heap, P, g) : g \in Range(gates)})]

(***************************************************************************)
(* circuit.evaluate.                                                       *)
(***************************************************************************)
(* C21: an evaluate call leaves the gate sequence and every field of every *)
(* gate as they were, and the result of evaluate on an input is the same   *)
(* after gates.mark has been called on the gates of the circuit: the       *)
(* result depends on the graph and the input only.  The second part is     *)
(* checked in the state in which a graph is first reached, the evaluate   *)
(* calls that follow leaving the graph as it is. *)
C21_EvaluateIsPure ==
    IF last.name = "evaluate" THEN heap = prev.heap /\ gates = prev.gates
    ELSE \A input \in BitVectors(MaxBits) :
             evaluate(mark_each(heap, gates, 1), gates, input)
                 = evaluate(heap, gates, input)

(* evaluate returned a computed output bit of a circuit. *)
C21_Witness ==
    /\ last.name = "evaluate" /\ last.err = "none"
    /\ Len(last.out) = 1 /\ last.out[1] \in {0, 1}
    /\ \E g \in Range(gates) : heap[g].is_output /\ Len(heap[g].inputs) > 0

(* C22: evaluate raises an error on every flat input of bits whose length *)
(* differs from the number of input gates. *)
C22_EvaluateRejectsWrongLength ==
    \A input \in BitVectors(MaxBits) :
        Len(input) # Len(InputGates(heap, gates)) =>
            evaluate(heap, gates, input).err # "none"

(***************************************************************************)
(* signature.input and signature.output.                                   *)
(***************************************************************************)
(* A sequence of bits: a list or tuple of ints that are 0 or 1. *)
IsBits(x) == is_int_sequence(x) /\ \A i \in DOMAIN x.v : x.v[i].n \in {0, 1}

(* x is a list or tuple of sequences of bits with the lengths f in order. *)
MatchesFormat(x, f) ==
    /\ is_sequence(x)
    /\ \A i \in DOMAIN x.v : IsBits(x.v[i])
    /\ [i \in DOMAIN x.v |-> Len(x.v[i].v)] = f

(* The groups of bits of such an x, as plain sequences. *)
GroupsOf(x) == [i \in DOMAIN x.v |-> numbers(x.v[i])]

(* The p-th bit overall of groups of the lengths f (every length positive). *)
BitAt(groups, f, p) ==
    LET i == CHOOSE i \in DOMAIN f :
                 Sum(SubSeq(f, 1, i - 1)) < p /\ p <= Sum(SubSeq(f, 1, i))
    IN groups[i][p - Sum(SubSeq(f, 1, i - 1))]

(* Both formats are configured and have the same total length. *)
RoundTripFormats ==
    /\ signature.input_format.given
    /\ signature.output_format.given
    /\ Sum(signature.input_format.list) = Sum(signature.output_format.list)

(* output(input(x)) returns groups with the lengths of the output format *)
(* that hold the bits of x in order. *)
RegroupsBits(x) ==
    LET fin == signature.input_format.list
        fout == signature.output_format.list
        i == signature_input(signature, x)
        o == signature_output(signature, i.out)
    IN /\ i.err = "none"
       /\ o.err = "none"
       /\ [k \in DOMAIN o.out |-> Len(o.out[k])] = fout
       /\ \A p \in 1..Sum(fin) : BitAt(o.out, fout, p) = BitAt(GroupsOf(x), fin, p)

(* The list of lists that output(input(x)) returns. *)
RoundTrip(x) ==
    group_list(signature_output(signature, signature_input(signature, x).out).out)

(* C23 as stated: for every x that matches the input format of a signature *)
(* with both formats of equal total length, output(input(x)) is the bits of *)
(* x regrouped by the output format, and it equals x when the two formats  *)
(* are the same list. *)
C23_RoundTripEqualsX ==
    \A x \in Values :
        RoundTripFormats /\ MatchesFormat(x, signature.input_format.list) =>
            /\ RegroupsBits(x)
            /\ signature.input_format.list = signature.output_format.list =>
                   RoundTrip(x) = x

(* C23 amended: output(input(x)) is the bits of x regrouped by the output  *)
(* format, always as a list of lists; when the two formats are the same    *)
(* list it has the groups of x, so it equals x when x is a list of lists,  *)
(* and differs from x in the sequence types only when x holds a tuple. *)
C23_RoundTripRegroups ==
    \A x \in Values :
        RoundTripFormats /\ MatchesFormat(x, signature.input_format.list) =>
            /\ RegroupsBits(x)
            /\ signature.input_format.list = signature.output_format.list =>
                   /\ RoundTrip(x) = group_list(GroupsOf(x))
                   /\ (x.t = "list" /\ \A i \in DOMAIN x.v : x.v[i].t = "list")
                          => RoundTrip(x) = x

(* output returned two groups under a signature whose input format is one *)
(* group of the same total length. *)
C23_Witness ==
    /\ RoundTripFormats
    /\ Len(signature.input_format.list) = 1
    /\ last.name = "output" /\ last.err = "none" /\ Len(last.out) = 2

(* What signature.input accepts, with inner tuples counted as conforming   *)
(* or not. *)
Conforms(x, inner) ==
    IF ~signature.input_format.given THEN IsBits(x)
    ELSE /\ MatchesFormat(x, signature.input_format.list)
         /\ \A i \in DOMAIN x.v : x.v[i].t \in inner

(* input rejects x when x does not conform, and what evaluate does then;   *)
(* it returns the bits of x otherwise. *)
InputChecks(x, inner) ==
    LET r == signature_input(signature, x)
        e == circuit_evaluate(signature, heap, gates, x)
    IN IF Conforms(x, inner)
       THEN /\ r.err = "none"
            /\ IF signature.input_format.given
               THEN /\ Len(r.out) = Sum(signature.input_format.list)
                    /\ \A p \in 1..Len(r.out) :
                           r.out[p] = BitAt(GroupsOf(x), signature.input_format.list, p)
               ELSE r.out = numbers(x)
       ELSE /\ r.err \in {"TypeError", "ValueError"}
            /\ e.err = r.err /\ e.out = <<>>

(* A rejected evaluate call leaves the circuit as it was. *)
RejectedEvaluateChangesNothing ==
    last.name = "evaluate" /\ last.err # "none" =>
        heap = prev.heap /\ gates = prev.gates

(* C24 as stated: signature.input, and so evaluate, rejects every value    *)
(* that is not a list or tuple of bits (no input format) or not a list or  *)
(* tuple of lists of bits with the lengths of the format, returns the flat *)
(* bits otherwise, and a rejected evaluate leaves the circuit unchanged. *)
C24_InputRejectsNonLists ==
    /\ \A x \in Values : InputChecks(x, {"list"})
    /\ RejectedEvaluateChangesNothing

(* C24 amended: the same with the groups being lists or tuples: a group    *)
(* that is a tuple of bits is accepted like a list of bits. *)
C24_InputRejectsNonConforming ==
    /\ \A x \in Values : InputChecks(x, {"list", "tuple"})
    /\ RejectedEvaluateChangesNothing

(* evaluate rejected a flat list under a signature with an input format. *)
C24_Witness ==
    /\ signature.input_format.given
    /\ last.name = "evaluate" /\ last.err = "TypeError"

(***************************************************************************)
(* circuit.to_logical.                                                     *)
(***************************************************************************)
(* The signatures of a circuit with n input gates that have no output     *)
(* format and either no input format or one for n bits. *)
InputSignatures(n) ==
    {[input_format |-> NoFormat, output_format |-> NoFormat]} \cup
    {[input_format |-> [given |-> TRUE, list |-> f], output_format |-> NoFormat] :
        f \in {f \in Formats : Sum(f) = n}}

(* evaluate returns one entry on every vector of n bits. *)
EvaluatesToOneEntry(n) ==
    \A k \in 0..(2 ^ n - 1) :
        LET e == evaluate(heap, gates, product_tuple(n, k))
        IN e.err = "none" /\ Len(e.out) = 1

(* to_logical of a circuit with the signature sig raises unless there is   *)
(* exactly one output gate, and returns the entries of evaluate otherwise. *)
IsTruthTable(sig) ==
    LET n == Len(InputGates(heap, gates))
        r == to_logical(sig, heap, gates)
    IN IF Len(OutputGates(heap, gates)) # 1 THEN r.err # "none"
       ELSE EvaluatesToOneEntry(n) =>
               /\ r.err = "none"
               /\ Len(r.out) = 2 ^ n
               /\ \A k \in 0..(2 ^ n - 1) :
                      evaluate(heap, gates, product_tuple(n, k)).out = <<r.out[k + 1]>>

(* C25: to_logical raises unless the circuit has exactly one output gate;  *)
(* otherwise it returns 2^n entries, n the number of input gates, the k-th *)
(* being the single output bit of evaluate on the k-th vector of n bits in *)
(* lexicographic order, with or without a configured input format. *)
C25_ToLogicalIsTruthTable ==
    \A sig \in InputSignatures(Len(InputGates(heap, gates))) : IsTruthTable(sig)

(* The same for a circuit without an input format. *)
C25_Flat == IsTruthTable([input_format |-> NoFormat, output_format |-> NoFormat])

(***************************************************************************)
(* gates.evaluate.                                                         *)
(***************************************************************************)
(* The position of the gate g in the collection, 0 when it is not in it. *)
PositionIn(coll, g) ==
    IF g \in Range(coll) THEN CHOOSE i \in DOMAIN coll : coll[i] = g ELSE 0

(* Entry j of the inputs of the gate at position i takes a fresh bit: it   *)
(* is None, or a gate that is not at an earlier position of the collection. *)
TakesFreshBit(coll, i, j) ==
    LET ig == heap[coll[i]].inputs[j]
    IN ig = None \/ PositionIn(coll, ig) = 0 \/ PositionIn(coll, ig) >= i

(* The fresh entries among the first j of the gate at position i. *)
FreshUpTo(coll, i, j) == Cardinality({k \in 1..j : TakesFreshBit(coll, i, k)})

(* The number of fresh bits that the gate at position i takes. *)
BitsTaken(coll, i) ==
    LET g == coll[i]
    IN IF heap[g].inputs = <<>> THEN arity(heap[g].operation)
       ELSE FreshUpTo(coll, i, Len(heap[g].inputs))

(* The number of bits taken by the gates before position i. *)
RECURSIVE BitsBefore(_, _)
BitsBefore(coll, i) ==
    IF i <= 1 THEN 0 ELSE BitsBefore(coll, i - 1) + BitsTaken(coll, i - 1)

(* The inputs list of the gate at position i has a wrong length. *)
WrongLength(coll, i) ==
    Len(heap[coll[i]].inputs) \notin {0, arity(heap[coll[i]].operation)}

(* The input has too few bits for the gate at position i. *)
InputExhausted(coll, input, i) ==
    BitsBefore(coll, i) + BitsTaken(coll, i) > Len(input)

(* The value of the gate at position i. *)
RECURSIVE ValueAt(_, _, _)
ValueAt(coll, input, i) ==
    LET g == coll[i]
        ins == heap[g].inputs
    IN function(heap[g].operation,
           IF ins = <<>>
           THEN [j \in 1..arity(heap[g].operation) |-> input[BitsBefore(coll, i) + j]]
           ELSE [j \in DOMAIN ins |->
                    IF TakesFreshBit(coll, i, j)
                    THEN input[BitsBefore(coll, i) + FreshUpTo(coll, i, j)]
                    ELSE ValueAt(coll, input, PositionIn(coll, ins[j]))])

(* The positions of the gates none of whose outputs are in the collection. *)
SinkPositions(coll) ==
    SelectSeq([i \in DOMAIN coll |-> i],
              LAMBDA i : \A k \in DOMAIN heap[coll[i]].outputs :
                             heap[coll[i]].outputs[k] \notin Range(coll))

(* The result of a walk that meets no wrong length and has enough bits. *)
WalkResult(coll, input) ==
    [err |-> "none",
     out |-> [k \in DOMAIN SinkPositions(coll) |->
                 ValueAt(coll, input, SinkPositions(coll)[k])]]

(* The first position at which the walk stops with an error, 0 if none. *)
FirstError(coll, input) ==
    LET E == {i \in DOMAIN coll : WrongLength(coll, i) \/ InputExhausted(coll, input, i)}
    IN IF E = {} THEN 0 ELSE CHOOSE i \in E : \A k \in E : i <= k

(* C26 as stated: gates.evaluate raises ValueError if some gate of the     *)
(* collection has an inputs list whose length is neither 0 nor the arity;  *)
(* otherwise, on an input with enough bits, it walks the gates in order,   *)
(* takes the fresh bits from left to right and returns the values of the   *)
(* gates none of whose outputs are in the collection. *)
C26_ValueErrorWhatever ==
    last.name # "gates.evaluate" =>
        \A coll \in Collections(gates), input \in BitVectors(MaxBits) :
            LET r == gates_evaluate(heap, coll, input)
            IN IF \E i \in DOMAIN coll : WrongLength(coll, i)
               THEN r.err = "ValueError"
               ELSE FirstError(coll, input) = 0 => r = WalkResult(coll, input)

(* C26 amended: the walk stops at the first gate that has a wrong inputs   *)
(* length (ValueError) or for which the input has too few bits left        *)
(* (StopIteration), whichever gate comes first; without such a gate the    *)
(* result is as stated. *)
C26_WalkStopsAtFirstError ==
    last.name # "gates.evaluate" =>
        \A coll \in Collections(gates), input \in BitVectors(MaxBits) :
            LET r == gates_evaluate(heap, coll, input)
                e == FirstError(coll, input)
            IN IF e = 0 THEN r = WalkResult(coll, input)
               ELSE /\ r.out = <<>>
                    /\ r.err = IF WrongLength(coll, e) THEN "ValueError"
                               ELSE "StopIteration"

(* gates.evaluate returned one value for a collection of two gates, one of *)
(* which has the placeholder None among its inputs. *)
C26_Witness ==
    /\ last.name = "gates.evaluate" /\ last.err = "none" /\ Len(last.out) = 1
    /\ Len(gates) = 2
    /\ \E g \in Range(gates) : None \in Range(heap[g].inputs)

(***************************************************************************)
(* Prune and the marks.                                                    *)
(***************************************************************************)
(* The heap with no gate marked. *)
Unmarked(h) == [g \in DOMAIN h |-> [h[g] EXCEPT !.is_marked = FALSE]]

(* Two prune results have the same gate sequence and positions. *)
SameSequence(a, b) ==
    /\ a.err = b.err
    /\ a.gates = b.gates
    /\ \A g \in Range(a.gates) : a.heap[g].index = b.heap[g].index

(* C27: the result of a prune does not depend on the marks that earlier    *)
(* calls left: the circuit as it is and the same circuit with no gate      *)
(* marked end with the same gate sequence and positions. *)
C27_PruneIgnoresEarlierMarks ==
    SameSequence(prune_and_topological_sort_stable(heap, gates),
                 prune_and_topological_sort_stable(Unmarked(heap), gates))

(* The same for circuits whose input gates have no inputs. *)
C27_WithoutInputGatesWithInputs ==
    (\A g \in DOMAIN heap : heap[g].is_input => heap[g].inputs = <<>>) =>
        SameSequence(prune_and_topological_sort_stable(heap, gates),
                     prune_and_topological_sort_stable(Unmarked(heap), gates))

(***************************************************************************)
(* The circuit after a prune.                                              *)
(***************************************************************************)
(* C28: in every reachable state, also after a prune, a circuit.gate call  *)
(* with arguments that a circuit with the same gates accepts succeeds and  *)
(* appends the new gate at position count(), and the collection supports   *)
(* to_legible. *)
C28_GateContractAfterPrune ==
    /\ to_legible(heap, gates, is_gates).err # "AttributeError"
    /\ \A operation \in Ops, inputs \in InputsArgs(heap), outputs \in OutputsArgs(heap),
          is_input \in BOOLEAN, is_output \in BOOLEAN :
           LET valid == circuit_gate(heap, gates, TRUE,
                                     operation, inputs, outputs, is_input, is_output)
               r == circuit_gate(heap, gates, is_gates,
                                 operation, inputs, outputs, is_input, is_output)
           IN valid.err = "none" =>
                  /\ r.err = "none"
                  /\ r.gates = Append(gates, Len(r.heap))
                  /\ r.heap[Len(r.heap)].index = count(gates, DOMAIN heap)

(* C29: for every gate g of the collection, g.outputs has no duplicates    *)
(* and holds exactly the gates of the collection that list g in their      *)
(* inputs; after a prune no outputs list refers to a removed gate. *)
C29_OutputsMirrorInputs ==
    \A g \in Range(gates) :
        /\ NoDuplicates(heap[g].outputs)
        /\ Range(heap[g].outputs) =
               {c \in Range(gates) : g \in Range(heap[c].inputs)}

(* C30: for every predicate, depth after a prune returns a value that is   *)
(* at most the value before the prune, and depth is at most count(). *)
C30_PruneNeverIncreasesDepth ==
    \A P \in SUBSET DOMAIN heap :
        LET d == depth(heap, gates, P)
        IN /\ d.err = "none" /\ d.value <= count(gates, DOMAIN heap)
           /\ Pruned => d.value <= depth(prev.heap, prev.gates, P).value

(* The same for the calls of depth that return. *)
C30_WhenDepthReturns ==
    \A P \in SUBSET DOMAIN heap :
        LET d == depth(heap, gates, P)
            before == depth(prev.heap, prev.gates, P)
        IN d.err = "none" =>
               /\ d.value <= count(gates, DOMAIN heap)
               /\ Pruned /\ before.err = "none" => d.value <= before.value

====
